---- MODULE Spec2Model ----
(***************************************************************************)
(* Model of homeassistant/components/sensor/rest.py: the REST sensor       *)
(* platform.  setup_platform performs a preflight request, builds a        *)
(* throttled fetcher (RestDataGet / RestDataPost) and a RestSensor, and    *)
(* registers the sensor; the host then polls RestSensor.update().          *)
(*                                                                         *)
(* Python values are modelled as follows.  A str is a TLA+ string.  The    *)
(* fetcher's `data` attribute, which the code rebinds between a dict and a *)
(* str, is a record tagged with its Python type.  None is the string       *)
(* "None".  An exception escaping a call is recorded by its class name.    *)
(***************************************************************************)
EXTENDS Integers, Sequences, FiniteSets, TLC

\* ------------------------------------------------------------------ bounds
\* The clock stops advancing at MaxTime seconds.
MaxTime == 125
\* The host stops polling once this many requests have been issued.
MaxRequests == 4

\* --------------------------------------------------------------- constants
DEFAULT_NAME == "REST Sensor"
\* MIN_TIME_BETWEEN_UPDATES = timedelta(seconds=60)
MIN_TIME_BETWEEN_UPDATES == 60
\* timeout=10 on every requests.get / requests.post call
REQUEST_TIMEOUT == 10

None == "None"
\* The sentinel stored under data['error'] and the template default.
NA == "N/A"
\* The state RestSensor.__init__ assigns before its first update().
PLACEHOLDER == "n/a"
\* Throttle's "never executed yet" timestamp.
NoCall == -1

\* ------------------------------------------------------------ input spaces
GoodResource == "http://host/api"
BadResource == "host/api"
Payload == "foo=bar"
Template == "{{ value_json.value }}"
JsonBody == "{\"value\": 10}"
Bodies == {"42.5", JsonBody, "no error", "n/a"}
\* Seconds the clock may advance between two polls of the host.
TickSteps == {MIN_TIME_BETWEEN_UPDATES - 1, MIN_TIME_BETWEEN_UPDATES}
\* Seconds an answered (or refused) request may take.
Durations == {0, 1}

Configs ==
    [resource : {GoodResource, BadResource},
     method : {"GET", "POST", "PUT"},
     payload : {None, Payload},
     verify_ssl : BOOLEAN,
     value_template : {None, Template}]

\* What one call of requests.get / requests.post can do.
ResponseOutcomes ==
    [kind : {"response"}, ok : BOOLEAN, text : Bodies, dur : Durations]

FailureOutcomes ==
    [kind : {"ConnectionError", "Exception"}, ok : {FALSE}, text : {""},
     dur : Durations]
    \cup
    [kind : {"ConnectTimeout", "ReadTimeout"}, ok : {FALSE}, text : {""},
     dur : {REQUEST_TIMEOUT}]

SchemaOutcomes ==
    [kind : {"MissingSchema"}, ok : {FALSE}, text : {""}, dur : {0}]

\* requests raises MissingSchema for a URL without a scheme before any I/O.
Outcomes(resource) ==
    IF resource = BadResource THEN SchemaOutcomes
    ELSE ResponseOutcomes \cup FailureOutcomes

\* requests.exceptions.ConnectTimeout derives from ConnectionError;
\* requests.exceptions.ReadTimeout does not.
IsConnectionError(kind) == kind \in {"ConnectionError", "ConnectTimeout"}

\* ---------------------------------------------------------- Python values
\* dict()
EmptyDict == [type |-> "dict", keys |-> {}, error |-> "", text |-> ""]
\* {'error': v}
ErrorDict(v) == [type |-> "dict", keys |-> {"error"}, error |-> v, text |-> ""]
\* a str
StrValue(s) == [type |-> "str", keys |-> {}, error |-> "", text |-> s]
\* no object yet
NoValue == [type |-> "none", keys |-> {}, error |-> "", text |-> ""]

\* needle in haystack, for two str
InStr(needle, s) ==
    \E i \in 1..(Len(s) - Len(needle) + 1) :
        SubSeq(s, i, i + Len(needle) - 1) = needle

\* key in value: key membership for a dict, substring search for a str
PyIn(key, value) ==
    IF value.type = "dict" THEN key \in value.keys
    ELSE InStr(key, value.text)

\* ------------------------------------------------- collaborators (util)
\* template.render_with_possible_json_value(hass, tpl, value, error_value):
\* the transform applied to the raw body, error_value when it yields nothing.
TemplateYield(tpl, value) ==
    IF value.type = "str" /\ value.text = JsonBody THEN "10" ELSE ""

render_with_possible_json_value(tpl, value, error_value) ==
    LET r == TemplateYield(tpl, value)
    IN  IF r = "" THEN StrValue(error_value) ELSE StrValue(r)

\* Throttle(min_time): the gate.  The first call always executes; a later
\* call executes only if now - last_execution_time >= min_interval.
ThrottleOpen(min_time, last, t) ==
    last = NoCall \/ t - last >= min_time

\* Throttle(min_time): last_execution_time is set to the clock after the
\* wrapped operation completes; an operation that raises does not complete.
ThrottleStamp(last, exc, done) ==
    IF exc = "none" THEN done ELSE last

\* ------------------------------------------------------------- the fetcher
NoRest ==
    [cls |-> "none", resource |-> "", payload |-> "", verify_ssl |-> FALSE,
     data |-> NoValue]

\* RestDataGet.__init__
RestDataGet_init(resource, verify_ssl) ==
    [cls |-> "RestDataGet", resource |-> resource, payload |-> None,
     verify_ssl |-> verify_ssl, data |-> EmptyDict]

\* RestDataPost.__init__ that does not keep the payload.
RestDataPost_init_payload_dropped(resource, payload, verify_ssl) ==
    [cls |-> "RestDataPost", resource |-> resource, payload |-> None,
     verify_ssl |-> verify_ssl, data |-> EmptyDict]

\* RestDataPost.__init__
RestDataPost_init(resource, payload, verify_ssl) ==
    [cls |-> "RestDataPost", resource |-> resource, payload |-> payload,
     verify_ssl |-> verify_ssl, data |-> EmptyDict]

\* requests.get(url, timeout=10, verify=verify)
GetRequest(url, verify) ==
    [method |-> "GET", url |-> url, data |-> None, verify |-> verify,
     timeout |-> REQUEST_TIMEOUT]

\* requests.post(url, data=payload, timeout=10, verify=verify)
PostRequest(url, payload, verify) ==
    [method |-> "POST", url |-> url, data |-> payload, verify |-> verify,
     timeout |-> REQUEST_TIMEOUT]

\* FetchBody with a bare `except:` in place of `except ConnectionError:`.
FetchBody_bare_except(data, o) ==
    IF o.kind = "response" THEN
        IF PyIn("error", data) /\ data.type # "dict"
        THEN [data |-> data, exc |-> "TypeError"]
        ELSE [data |-> StrValue(o.text), exc |-> "none"]
    ELSE IF data.type = "dict"
    THEN [data |-> ErrorDict(NA), exc |-> "none"]
    ELSE [data |-> data, exc |-> "TypeError"]

\* FetchBody whose except handler clears the cache (self.data = dict())
\* instead of storing the marker.
FetchBody_failure_clears(data, o) ==
    IF o.kind = "response" THEN
        IF PyIn("error", data) /\ data.type # "dict"
        THEN [data |-> data, exc |-> "TypeError"]
        ELSE [data |-> StrValue(o.text), exc |-> "none"]
    ELSE IF IsConnectionError(o.kind)
    THEN [data |-> EmptyDict, exc |-> "none"]
    ELSE [data |-> data, exc |-> o.kind]

\* The try/except of RestDataGet.update and RestDataPost.update, given the
\* outcome o of the request: the new value of self.data and the exception
\* that escapes ("none" when the body returns).
\*   response:         if 'error' in self.data: del self.data['error']
\*                     self.data = response.text
\*   ConnectionError:  self.data['error'] = 'N/A'
\*   anything else:    not caught
\* del and item assignment raise TypeError when self.data is a str.
FetchBody(data, o) ==
    IF o.kind = "response" THEN
        IF PyIn("error", data) /\ data.type # "dict"
        THEN [data |-> data, exc |-> "TypeError"]
        ELSE [data |-> StrValue(o.text), exc |-> "none"]
    ELSE IF IsConnectionError(o.kind) THEN
        IF data.type = "dict"
        THEN [data |-> ErrorDict(NA), exc |-> "none"]
        ELSE [data |-> data, exc |-> "TypeError"]
    ELSE [data |-> data, exc |-> o.kind]

\* A call the throttle gate turns away: nothing runs, nothing changes.
Throttled(self, last, t) ==
    [rest |-> self, exc |-> "none", requests |-> <<>>, last_call |-> last,
     now |-> t, gate |-> "closed"]

\* One execution of the wrapped method: one request, then the try/except.
Executed(self, request, last, t, o) ==
    LET b == FetchBody(self.data, o)
    IN  [rest |-> [self EXCEPT !.data = b.data], exc |-> b.exc,
         requests |-> <<request>>,
         last_call |-> ThrottleStamp(last, b.exc, t + o.dur),
         now |-> t + o.dur, gate |-> "open"]

\* RestDataGet.update with its @Throttle decorator left off.
RestDataGet_update_undecorated(self, last, t, o) ==
    Executed(self, GetRequest(self.resource, self.verify_ssl), last, t, o)

\* RestDataGet.update that fetches again at once while the cache holds the
\* error marker, whatever the throttle says.
RestDataGet_update_retry_on_error(self, last, t, o) ==
    IF ThrottleOpen(MIN_TIME_BETWEEN_UPDATES, last, t)
       \/ (self.data.type = "dict" /\ PyIn("error", self.data))
    THEN Executed(self, GetRequest(self.resource, self.verify_ssl), last, t, o)
    ELSE Throttled(self, last, t)

\* @Throttle(MIN_TIME_BETWEEN_UPDATES) RestDataGet.update
RestDataGet_update(self, last, t, o) ==
    IF ThrottleOpen(MIN_TIME_BETWEEN_UPDATES, last, t)
    THEN Executed(self, GetRequest(self.resource, self.verify_ssl), last, t, o)
    ELSE Throttled(self, last, t)

\* RestDataPost.update with its @Throttle decorator left off.
RestDataPost_update_undecorated(self, last, t, o) ==
    Executed(self, PostRequest(self.resource, self.payload,
                               self.verify_ssl), last, t, o)

\* @Throttle(MIN_TIME_BETWEEN_UPDATES) RestDataPost.update
RestDataPost_update(self, last, t, o) ==
    IF ThrottleOpen(MIN_TIME_BETWEEN_UPDATES, last, t)
    THEN Executed(self, PostRequest(self.resource, self.payload,
                                    self.verify_ssl), last, t, o)
    ELSE Throttled(self, last, t)

\* RestSensor.update without its self.rest.update() call.
rest_update_not_called(self, last, t, o) ==
    Throttled(self, last, t)

\* self.rest.update(): dispatch on the fetcher's class
rest_update(self, last, t, o) ==
    IF self.cls = "RestDataGet" THEN RestDataGet_update(self, last, t, o)
    ELSE RestDataPost_update(self, last, t, o)

\* -------------------------------------------------------------- the sensor
NoSensor ==
    [exists |-> FALSE, name |-> "", state |-> NoValue,
     unit_of_measurement |-> "", value_template |-> ""]

\* RestSensor.__init__ up to, not including, its self.update()
RestSensor_fields(name, unit_of_measurement, value_template) ==
    [exists |-> TRUE, name |-> name, state |-> StrValue(PLACEHOLDER),
     unit_of_measurement |-> unit_of_measurement,
     value_template |-> value_template]

\* Publish with `self._state = value` indented under the template test, so
\* that a sensor without a template never stores the body.
Publish_assign_under_template(sensor, value) ==
    IF PyIn("error", value) THEN
        IF value.type = "dict"
        THEN [sensor |-> [sensor EXCEPT !.state = StrValue(value.error)],
              exc |-> "none", rendered |-> FALSE]
        ELSE [sensor |-> sensor, exc |-> "TypeError", rendered |-> FALSE]
    ELSE IF sensor.value_template # None
    THEN [sensor |-> [sensor EXCEPT !.state =
                         render_with_possible_json_value(
                             sensor.value_template, value, NA)],
          exc |-> "none", rendered |-> TRUE]
    ELSE [sensor |-> sensor, exc |-> "none", rendered |-> FALSE]

\* Publish with the template applied before the error marker is looked for.
Publish_template_first(sensor, value) ==
    IF sensor.value_template # None
    THEN [sensor |-> [sensor EXCEPT !.state =
                         render_with_possible_json_value(
                             sensor.value_template, value, NA)],
          exc |-> "none", rendered |-> TRUE]
    ELSE IF PyIn("error", value) THEN
        IF value.type = "dict"
        THEN [sensor |-> [sensor EXCEPT !.state = StrValue(value.error)],
              exc |-> "none", rendered |-> FALSE]
        ELSE [sensor |-> sensor, exc |-> "TypeError", rendered |-> FALSE]
    ELSE [sensor |-> [sensor EXCEPT !.state = value], exc |-> "none",
          rendered |-> FALSE]

\* The publishing half of RestSensor.update: value = self.rest.data, then
\*   if 'error' in value: self._state = value['error']
\*   else: render if a template is configured; self._state = value
\* value['error'] raises TypeError when value is a str.  `rendered` tells
\* whether the template transform was called.
Publish(sensor, value) ==
    IF PyIn("error", value) THEN
        IF value.type = "dict"
        THEN [sensor |-> [sensor EXCEPT !.state = StrValue(value.error)],
              exc |-> "none", rendered |-> FALSE]
        ELSE [sensor |-> sensor, exc |-> "TypeError", rendered |-> FALSE]
    ELSE IF sensor.value_template # None
    THEN [sensor |-> [sensor EXCEPT !.state =
                         render_with_possible_json_value(
                             sensor.value_template, value, NA)],
          exc |-> "none", rendered |-> TRUE]
    ELSE [sensor |-> [sensor EXCEPT !.state = value], exc |-> "none",
          rendered |-> FALSE]

\* RestSensor.update taking a call the gate turned away for a failed fetch
\* and publishing the sentinel.
RestSensor_update_skip_is_failure(sensor, rest, last, t, o) ==
    LET f == rest_update(rest, last, t, o)
        p == Publish(sensor, f.rest.data)
    IN  IF f.exc # "none"
        THEN [sensor |-> sensor, f |-> f, exc |-> f.exc, rendered |-> FALSE]
        ELSE IF f.gate = "closed"
        THEN [sensor |-> [sensor EXCEPT !.state = StrValue(NA)], f |-> f,
              exc |-> "none", rendered |-> FALSE]
        ELSE [sensor |-> p.sensor, f |-> f, exc |-> p.exc,
              rendered |-> p.rendered]

\* RestSensor.update
RestSensor_update(sensor, rest, last, t, o) ==
    LET f == rest_update(rest, last, t, o)
        p == Publish(sensor, f.rest.data)
    IN  IF f.exc # "none"
        THEN [sensor |-> sensor, f |-> f, exc |-> f.exc, rendered |-> FALSE]
        ELSE [sensor |-> p.sensor, f |-> f, exc |-> p.exc,
              rendered |-> p.rendered]

\* ------------------------------------------------------------------ state
VARIABLES
    config,       \* the platform configuration handed to setup_platform
    pc,           \* where setup_platform stands / how it ended
    now,          \* wall clock, seconds
    last_call,    \* the throttle's last_execution_time (NoCall: never ran)
    rest,         \* the fetcher object (NoRest before it is built)
    sensor,       \* the RestSensor object (NoSensor before it is built)
    requests,     \* every requests.get / requests.post call made, in order
    added,        \* sizes of the lists passed to add_devices, in order
    last          \* what the latest step did (observation only)

vars == <<config, pc, now, last_call, rest, sensor, requests, added, last>>

Step(op, gate, o, exc, restExc, rendered) ==
    [op |-> op, gate |-> gate, kind |-> o.kind, ok |-> o.ok, text |-> o.text,
     exc |-> exc, restExc |-> restExc, rendered |-> rendered]

NoOutcome == [kind |-> "none", ok |-> FALSE, text |-> "", dur |-> 0]

Init ==
    /\ config \in Configs
    /\ pc = "setup"
    /\ now = 0
    /\ last_call = NoCall
    /\ rest = NoRest
    /\ sensor = NoSensor
    /\ requests = <<>>
    /\ added = <<>>
    /\ last = Step("init", "none", NoOutcome, "none", "none", FALSE)

\* Time passes between two polls of the host.
Tick ==
    \E d \in TickSteps :
        /\ pc = "registered"
        /\ now + d <= MaxTime
        /\ now' = now + d
        /\ last' = Step("tick", "none", NoOutcome, "none", "none", FALSE)
        /\ UNCHANGED <<config, pc, last_call, rest, sensor, requests, added>>

\* PreflightRequest with `else:` in place of `elif method == 'POST':`, so
\* that any other method is treated as POST.
PreflightRequest_else_post(cfg) ==
    IF cfg.method = "GET"
    THEN <<GetRequest(cfg.resource, cfg.verify_ssl)>>
    ELSE <<PostRequest(cfg.resource, cfg.payload, cfg.verify_ssl)>>

\* setup_platform, lines 30-59: read the configuration, issue the preflight
\* request and judge it.  With a method that is neither GET nor POST no
\* request is made and `response` is unbound at `response.ok`.
PreflightRequest(cfg) ==
    IF cfg.method = "GET"
    THEN <<GetRequest(cfg.resource, cfg.verify_ssl)>>
    ELSE IF cfg.method = "POST"
    THEN <<PostRequest(cfg.resource, cfg.payload, cfg.verify_ssl)>>
    ELSE <<>>

\* PreflightResult without the `return False` under `if not response.ok`.
PreflightResult_status_ignored(cfg, o) ==
    IF cfg.method \notin {"GET", "POST"}
    THEN [pc |-> "raised", exc |-> "UnboundLocalError"]
    ELSE IF o.kind = "response"
    THEN [pc |-> "preflight_ok", exc |-> "none"]
    ELSE IF o.kind = "MissingSchema" \/ IsConnectionError(o.kind)
    THEN [pc |-> "returned_false", exc |-> "none"]
    ELSE [pc |-> "raised", exc |-> o.kind]

PreflightResult(cfg, o) ==
    IF cfg.method \notin {"GET", "POST"}
    THEN [pc |-> "raised", exc |-> "UnboundLocalError"]
    ELSE IF o.kind = "response"
    THEN IF o.ok THEN [pc |-> "preflight_ok", exc |-> "none"]
         ELSE [pc |-> "returned_false", exc |-> "none"]
    ELSE IF o.kind = "MissingSchema" \/ IsConnectionError(o.kind)
    THEN [pc |-> "returned_false", exc |-> "none"]
    ELSE [pc |-> "raised", exc |-> o.kind]

setup_platform_preflight ==
    /\ pc = "setup"
    /\ \E o \in Outcomes(config.resource) :
        LET issued == PreflightRequest(config)
            dur == IF issued = <<>> THEN 0 ELSE o.dur
            r == PreflightResult(config, o)
        IN  /\ now + dur <= MaxTime
            /\ now' = now + dur
            /\ requests' = requests \o issued
            /\ pc' = r.pc
            /\ last' = Step("preflight", "none",
                            IF issued = <<>> THEN NoOutcome ELSE o,
                            r.exc, "none", FALSE)
    /\ UNCHANGED <<config, last_call, rest, sensor, added>>

\* setup_platform, lines 61-70 up to the add_devices call: build the fetcher
\* for the method, then RestSensor(...), whose __init__ ends in self.update().
NewFetcher(cfg) ==
    IF cfg.method = "GET"
    THEN RestDataGet_init(cfg.resource, cfg.verify_ssl)
    ELSE RestDataPost_init(cfg.resource, cfg.payload, cfg.verify_ssl)

setup_platform_construct ==
    /\ pc = "preflight_ok"
    /\ \E o \in Outcomes(config.resource) :
        LET fresh == RestSensor_fields(DEFAULT_NAME, None,
                                       config.value_template)
            u == RestSensor_update(fresh, NewFetcher(config), last_call,
                                   now, o)
        IN  /\ u.f.now <= MaxTime
            /\ now' = u.f.now
            /\ last_call' = u.f.last_call
            /\ rest' = u.f.rest
            /\ requests' = requests \o u.f.requests
            /\ sensor' = IF u.exc = "none" THEN u.sensor ELSE NoSensor
            /\ pc' = IF u.exc = "none" THEN "constructed" ELSE "raised"
            /\ last' = Step("construct", u.f.gate, o, u.exc, u.f.exc,
                            u.rendered)
    /\ UNCHANGED <<config, added>>

\* setup_platform, line 66: add_devices([sensor]); the function then ends.
setup_platform_add_devices ==
    /\ pc = "constructed"
    /\ added' = Append(added, 1)
    /\ pc' = "registered"
    /\ last' = Step("add_devices", "none", NoOutcome, "none", "none", FALSE)
    /\ UNCHANGED <<config, now, last_call, rest, sensor, requests>>

\* The host polls the registered entity: RestSensor.update().
update ==
    /\ pc = "registered"
    /\ Len(requests) < MaxRequests
    /\ \E o \in Outcomes(config.resource) :
        LET u == RestSensor_update(sensor, rest, last_call, now, o)
        IN  /\ u.f.now <= MaxTime
            /\ now' = u.f.now
            /\ last_call' = u.f.last_call
            /\ rest' = u.f.rest
            /\ requests' = requests \o u.f.requests
            /\ sensor' = u.sensor
            /\ last' = Step("update", u.f.gate,
                            IF u.f.gate = "open" THEN o ELSE NoOutcome,
                            u.exc, u.f.exc, u.rendered)
    /\ UNCHANGED <<config, pc, added>>

Next ==
    \/ Tick
    \/ setup_platform_preflight
    \/ setup_platform_construct
    \/ setup_platform_add_devices
    \/ update

Spec == Init /\ [][Next]_vars

\* ================================================================== claims
\* A step that ran RestSensor.update (from __init__ or from a host poll);
\* `last` then describes that call.
IsSensorUpdate(l) == l.op \in {"construct", "update"}

\* The state a body is published as: rendered if a template is configured.
DerivedState(tpl, text) ==
    IF tpl = None THEN StrValue(text)
    ELSE render_with_possible_json_value(tpl, StrValue(text), NA)

C2_ConnectionFailurePublishesSentinel ==
    (IsSensorUpdate(last) /\ last.gate = "open"
        /\ last.kind = "ConnectionError")
    => /\ last.exc = "none"
       /\ rest.data = ErrorDict(NA)
       /\ sensor.state = StrValue(NA)

\* C3: with no value template, after a gate-passing update() that received a
\* response, update() did not raise and the published state is the raw body.
C3_RawBodyPublished ==
    (IsSensorUpdate(last) /\ last.gate = "open" /\ last.kind = "response"
        /\ config.value_template = None)
    => /\ last.exc = "none"
       /\ sensor.exists
       /\ sensor.state = StrValue(last.text)

\* C4: a preflight that fails with MissingSchema, with a connection error or
\* with a non-ok status makes setup_platform return False; add_devices is
\* not called and neither a fetcher nor a sensor is built.
PreflightFailed(l) ==
    /\ l.op = "preflight"
    /\ \/ l.kind \in {"MissingSchema", "ConnectionError"}
       \/ l.kind = "response" /\ ~l.ok

C4_FailedPreflightAbortsSetup ==
    /\ PreflightFailed(last) =>
          /\ pc = "returned_false"
          /\ last.exc = "none"
    /\ pc = "returned_false" =>
          /\ added = <<>>
          /\ rest = NoRest
          /\ sensor = NoSensor
          /\ last_call = NoCall

\* setup_platform returned False on a non-ok status.
C4_Witness ==
    /\ pc = "returned_false"
    /\ last.kind = "response"
    /\ ~last.ok
    /\ Len(requests) = 1

C6_ResponseReplacesCache ==
    (IsSensorUpdate(last) /\ last.gate = "open" /\ last.kind = "response")
    => /\ last.restExc = "none"
       /\ rest.data = StrValue(last.text)

\* C7: when the published state is the sentinel after a connection failure,
\* the next gate-passing update() that receives a response does not raise,
\* removes the error marker and publishes the state derived from the body.
C7_RecoversFromSentinel ==
    [][(last'.op = "update" /\ last'.gate = "open" /\ last'.kind = "response"
          /\ rest.data = ErrorDict(NA) /\ sensor.state = StrValue(NA))
       => /\ last'.exc = "none"
          /\ rest'.data = StrValue(last'.text)
          /\ sensor'.state = DerivedState(config.value_template,
                                          last'.text)]_vars

\* C8: a poll whose request times out does not raise; the cached value is
\* the error marker and the published state is 'N/A'.
C8_TimeoutPublishesSentinel ==
    (last.op = "update" /\ last.gate = "open"
        /\ last.kind \in {"ConnectTimeout", "ReadTimeout"})
    => /\ last.exc = "none"
       /\ rest.data = ErrorDict(NA)
       /\ sensor.state = StrValue(NA)

\* C9: an update() made inside the throttle window of the previous call
\* leaves the published state, the name and the unit as that call left them.
C9_IdempotentWithinWindow ==
    [][(last'.op = "update" /\ last_call # NoCall
          /\ now - last_call < MIN_TIME_BETWEEN_UPDATES)
       => /\ sensor'.state = sensor.state
          /\ sensor'.name = sensor.name
          /\ sensor'.unit_of_measurement = sensor.unit_of_measurement]_vars

\* With a template: a poll fetched and published "10", and the poll after
\* it, inside the same window, was turned away.
C9_Witness ==
    /\ last.op = "update"
    /\ last.gate = "closed"
    /\ Len(requests) = 3
    /\ config.value_template # None
    /\ sensor.state = StrValue("10")

\* C10 as stated: the published state of a constructed sensor is never the
\* placeholder text 'n/a'.
C10_NeverPlaceholder ==
    sensor.exists => sensor.state # StrValue(PLACEHOLDER)

\* C10 (amended): when RestSensor's construction has returned, its first
\* fetch has run and the published state is the sentinel 'N/A' (connection
\* failure) or the state derived from that fetch's response body; it is the
\* text 'n/a' only when that derived state is itself 'n/a'.
C10_FirstStateFromFirstFetch ==
    pc = "constructed" =>
        /\ last.op = "construct"
        /\ last.gate = "open"
        /\ Len(requests) = 2
        /\ \/ /\ IsConnectionError(last.kind)
              /\ sensor.state = StrValue(NA)
           \/ /\ last.kind = "response"
              /\ sensor.state = DerivedState(config.value_template, last.text)
        /\ sensor.state = StrValue(PLACEHOLDER)
              => last.kind = "response" /\ last.text = PLACEHOLDER

\* A sensor was constructed from a first response whose body is 'n/a'.
C10_Witness ==
    /\ pc = "constructed"
    /\ last.kind = "response"
    /\ last.text = PLACEHOLDER
    /\ sensor.state = StrValue(PLACEHOLDER)

\* C11: whenever RestSensor.update() reads a cached value that is the error
\* marker, it does not raise, the published state is the marker's 'N/A' and
\* the template transform is not called.
C11_MarkerPublishedVerbatim ==
    (IsSensorUpdate(last) /\ last.restExc = "none"
        /\ rest.data = ErrorDict(NA))
    => /\ last.exc = "none"
       /\ sensor.state = StrValue(rest.data.error)
       /\ sensor.state = StrValue(NA)
       /\ ~last.rendered

\* A sensor with a template polled after a failed first fetch, inside the
\* window: the marker was read again and 'N/A' published.
C11_Witness ==
    /\ last.op = "update"
    /\ last.gate = "closed"
    /\ config.value_template # None
    /\ rest.data = ErrorDict(NA)
    /\ sensor.state = StrValue(NA)

\* C12: every request made for a POST configuration is a POST to the
\* configured resource carrying the configured payload, every request made
\* for a GET configuration is a GET to it with no body, all with the
\* configured verify flag; and the fetcher's resource, payload and flag are
\* those of the configuration and do not change once it is built.
ConfiguredRequest(cfg) ==
    [method |-> cfg.method, url |-> cfg.resource,
     data |-> IF cfg.method = "POST" THEN cfg.payload ELSE None,
     verify |-> cfg.verify_ssl, timeout |-> REQUEST_TIMEOUT]

FetcherMatchesConfig ==
    rest.cls # "none" =>
        /\ rest.cls = (IF config.method = "POST" THEN "RestDataPost"
                       ELSE "RestDataGet")
        /\ rest.resource = config.resource
        /\ rest.verify_ssl = config.verify_ssl
        /\ config.method = "POST" => rest.payload = config.payload

C12_RequestsFollowConfiguration ==
    /\ [](\A i \in 1..Len(requests) : requests[i] = ConfiguredRequest(config))
    /\ []FetcherMatchesConfig
    /\ [][/\ config' = config
          /\ rest.cls # "none" =>
                /\ rest'.cls = rest.cls
                /\ rest'.resource = rest.resource
                /\ rest'.payload = rest.payload
                /\ rest'.verify_ssl = rest.verify_ssl]_vars

\* A POST sensor with payload "foo=bar" has made its preflight, its first
\* fetch and one more fetch.
C12_Witness ==
    /\ config.method = "POST"
    /\ config.payload = Payload
    /\ Len(requests) = 3
    /\ requests[3].method = "POST"
    /\ requests[3].data = Payload

\* C13: with a value template configured, whenever RestSensor.update() reads
\* a cached value that is a response body, it does not raise and the
\* published state is the template transform of that body ('N/A' when the
\* transform yields nothing).
C13_TemplateResultPublished ==
    (IsSensorUpdate(last) /\ last.restExc = "none"
        /\ config.value_template # None /\ rest.data.type = "str")
    => /\ last.exc = "none"
       /\ last.rendered
       /\ sensor.state = render_with_possible_json_value(
                             config.value_template, rest.data, NA)

\* C14: when the request of a gate-passing fetch raises an exception that is
\* not a ConnectionError, that exception leaves the fetcher's update() and
\* RestSensor.update(), and the cached value and the sensor are as before
\* the call (in __init__: the cache is still the fresh dict and no sensor is
\* returned).
NotConnectionError(kind) == kind \in {"Exception", "ReadTimeout"}

C14_OtherExceptionsPropagate ==
    [][(IsSensorUpdate(last') /\ last'.gate = "open"
          /\ NotConnectionError(last'.kind))
       => /\ last'.restExc = last'.kind
          /\ last'.exc = last'.kind
          /\ last'.op = "update" => rest' = rest /\ sensor' = sensor
          /\ last'.op = "construct" =>
                /\ rest'.data = EmptyDict
                /\ sensor' = NoSensor
                /\ pc' = "raised"]_vars

\* A poll of a registered sensor whose request raised a non-connection
\* exception, which escaped update().
C14_Witness ==
    /\ last.op = "update"
    /\ last.gate = "open"
    /\ last.kind = "Exception"
    /\ last.exc = "Exception"
    /\ sensor.exists
    /\ rest.data.type = "str"

\* C15 as stated: once a fetcher's first update() has been called, its
\* cached value is a response body (a str) or the marker {'error': 'N/A'},
\* never the initial empty dict and never a marker with other content.
IsBodyOrMarker(data) ==
    \/ data.type = "str" /\ data.keys = {}
    \/ data = ErrorDict(NA)

C15_CacheIsBodyOrMarker ==
    rest.cls # "none" => IsBodyOrMarker(rest.data)

\* C15 (amended): once a fetcher's first update() has returned without
\* raising, its cached value is at every moment a response body (a str) or
\* the marker {'error': 'N/A'}, never the initial empty dict and never a
\* marker with other content.
C15_CacheIsBodyOrMarkerOnceFetched ==
    (rest.cls # "none" /\ last_call # NoCall) => IsBodyOrMarker(rest.data)

\* A poll renewed the marker left by a failed first fetch.
C15_Witness ==
    /\ last.op = "update"
    /\ last.gate = "open"
    /\ IsConnectionError(last.kind)
    /\ last_call # NoCall
    /\ rest.data = ErrorDict(NA)

\* C16: a fetch that ends in a caught connection failure starts a new
\* throttle window at its completion, and every update() made less than
\* MIN_TIME_BETWEEN_UPDATES after it issues no request, whatever the
\* endpoint would answer, and leaves the published state at 'N/A'.
C16_FailedFetchStartsWindow ==
    [][/\ (IsSensorUpdate(last') /\ last'.gate = "open"
             /\ IsConnectionError(last'.kind) /\ last'.restExc = "none")
          => /\ last_call' = now'
             /\ rest'.data = ErrorDict(NA)
             /\ sensor'.state = StrValue(NA)
       /\ (last'.op = "update" /\ rest.data = ErrorDict(NA)
             /\ last_call # NoCall
             /\ now - last_call < MIN_TIME_BETWEEN_UPDATES)
          => /\ requests' = requests
             /\ rest' = rest
             /\ last_call' = last_call
             /\ sensor'.state = StrValue(NA)]_vars

\* A poll failed with a connection error and the poll 59 s after it was
\* turned away, the state still 'N/A'.
C16_Witness ==
    /\ last.op = "update"
    /\ last.gate = "closed"
    /\ Len(requests) = 3
    /\ rest.data = ErrorDict(NA)
    /\ sensor.state = StrValue(NA)
    /\ now - last_call = MIN_TIME_BETWEEN_UPDATES - 1

\* C17: one call of setup_platform calls add_devices at most once, with a
\* list of exactly one sensor, and only for method GET or POST after an ok
\* preflight response; for any other method no request is made and no
\* entity is built or registered.
SetupPastPreflight == pc \in {"preflight_ok", "constructed", "registered"}

C17_AddDevicesOnceAfterOkPreflight ==
    /\ [](/\ Len(added) <= 1
          /\ added # <<>> => added = <<1>> /\ pc = "registered"
          /\ SetupPastPreflight => config.method \in {"GET", "POST"}
          /\ config.method \notin {"GET", "POST"} =>
                /\ requests = <<>>
                /\ added = <<>>
                /\ rest = NoRest
                /\ sensor = NoSensor)
    /\ [][/\ (SetupPastPreflight' /\ ~SetupPastPreflight)
             => /\ last'.op = "preflight"
                /\ last'.kind = "response"
                /\ last'.ok
          /\ added' # added
             => /\ pc = "constructed"
                /\ sensor.exists
                /\ sensor' = sensor
                /\ added = <<>>]_vars

\* The one sensor has been registered.
C17_Witness ==
    /\ pc = "registered"
    /\ added = <<1>>
    /\ sensor.exists

\* C18: in a setup that registers an entity exactly two requests are made,
\* the preflight and then the first fetch of RestSensor.__init__, both
\* before add_devices; the state the entity is registered with is the one
\* the second request produced ('N/A' on a connection failure).
C18_TwoRequestsBeforeRegistration ==
    /\ [](/\ pc = "preflight_ok" =>
                /\ Len(requests) = 1
                /\ last.op = "preflight"
                /\ ~sensor.exists
                /\ added = <<>>
          /\ pc = "constructed" =>
                /\ Len(requests) = 2
                /\ requests[1] = ConfiguredRequest(config)
                /\ requests[2] = ConfiguredRequest(config)
                /\ last.op = "construct"
                /\ added = <<>>
                /\ IsConnectionError(last.kind) => sensor.state = StrValue(NA)
                /\ last.kind = "response" =>
                      sensor.state = DerivedState(config.value_template,
                                                  last.text))
    /\ [][added' # added
          => /\ pc = "constructed"
             /\ Len(requests) = 2
             /\ requests' = requests
             /\ sensor' = sensor]_vars

\* A sensor was registered with state 'N/A': the preflight succeeded and the
\* constructor's fetch met a connection failure.
C18_Witness ==
    /\ pc = "registered"
    /\ last.op = "add_devices"
    /\ added = <<1>>
    /\ Len(requests) = 2
    /\ rest.data = ErrorDict(NA)
    /\ sensor.state = StrValue(NA)

====
